---- MODULE Spec2Model ----
(***************************************************************************)
(* Emergency-alert orchestrator (src/app.py): the Flask handlers sos and   *)
(* check_status, the background thread send_alert, and the helpers         *)
(* get_ip_location, reverse_geocode, send_email_alert, send_sms_alert.     *)
(*                                                                         *)
(* Conventions.                                                            *)
(*  - A Python str that the code only builds is a TLA+ string; a str the   *)
(*    code parses (the 'loc' field) is a sequence of one-character strings.*)
(*  - A Python float is kept in tenths: 12.9 is Float(129).  Only          *)
(*    non-negative values with at most one decimal digit are drawn.        *)
(*  - send_alert runs on its own thread; one action is one stage of it,    *)
(*    from one blocking call (network, device, SMTP) to the next.          *)
(***************************************************************************)
EXTENDS Integers, Sequences, FiniteSets, TLC

\* ------------------------------------------------------------------ bounds
\* Number of trigger requests (POST /sos) the model can hold.
MaxSessions == 2
\* Wall clock: ticks the clock can advance, and ticks in one second.
MaxClock == 3
TicksPerSecond == 2
\* Largest number of frames the video loop writes in a run of the model.
MaxFrames == 1

Sessions == 1..MaxSessions

\* ------------------------------------------------------------ Python values
NoneVal == [type |-> "NoneType"]
Float(t) == [type |-> "float", tenths |-> t]

\* Python truthiness of None or a float (app.py:47 'not latitude').
Truthy(v) == v.type = "float" /\ v.tenths # 0

DigitChars == <<"0", "1", "2", "3", "4", "5", "6", "7", "8", "9">>

IsDigit(c) == \E i \in 1..10 : DigitChars[i] = c

DigitVal(c) == (CHOOSE i \in 1..10 : DigitChars[i] = c) - 1

RECURSIVE FormatNat(_)
\* str(int) of a natural number.
FormatNat(n) ==
    IF n < 10 THEN DigitChars[n + 1]
    ELSE FormatNat(n \div 10) \o DigitChars[(n % 10) + 1]

\* repr of a Python float kept in tenths: 12.9 -> "12.9", 0.0 -> "0.0".
FormatFloat(t) == FormatNat(t \div 10) \o "." \o DigitChars[(t % 10) + 1]

\* What an f-string prints for a value (None or float).
Str(v) == IF v.type = "NoneType" THEN "None" ELSE FormatFloat(v.tenths)

RECURSIVE Split(_, _)
\* str.split(sep) on a sequence of characters: the fields between separators.
Split(s, sep) ==
    IF \A i \in 1..Len(s) : s[i] # sep THEN <<s>>
    ELSE LET k == CHOOSE i \in 1..Len(s) :
                      s[i] = sep /\ \A j \in 1..(i - 1) : s[j] # sep
         IN  <<SubSeq(s, 1, k - 1)>> \o Split(SubSeq(s, k + 1, Len(s)), sep)

RECURSIVE DigitsVal(_)
DigitsVal(ds) ==
    IF Len(ds) = 0 THEN 0
    ELSE 10 * DigitsVal(SubSeq(ds, 1, Len(ds) - 1)) + DigitVal(ds[Len(ds)])

AllDigits(ds) == Len(ds) > 0 /\ \A i \in 1..Len(ds) : IsDigit(ds[i])

\* float(str) on digits or digits "." digit; anything else is a ValueError.
ParseFloat(p) ==
    LET parts == Split(p, ".") IN
    IF Len(parts) = 1 /\ AllDigits(parts[1])
    THEN [ok |-> TRUE, val |-> Float(10 * DigitsVal(parts[1]))]
    ELSE IF Len(parts) = 2 /\ AllDigits(parts[1]) /\ AllDigits(parts[2])
            /\ Len(parts[2]) = 1
    THEN [ok |-> TRUE, val |-> Float(10 * DigitsVal(parts[1]) + DigitsVal(parts[2]))]
    ELSE [ok |-> FALSE, val |-> NoneVal]

\* --------------------------------------------------- the outside world
\* Responses of https://ipinfo.io/json to requests.get + response.json().
\*   neterr : requests.get raises;  nonjson : response.json() raises;
\*   json   : a JSON object; hasLoc says whether it has a 'loc' member,
\*            locIsStr whether that member is a string (else null), loc its
\*            characters.
IpResp(kind, hasLoc, locIsStr, loc) ==
    [kind |-> kind, hasLoc |-> hasLoc, locIsStr |-> locIsStr, loc |-> loc]

IpResponses ==
    { IpResp("neterr", FALSE, FALSE, <<>>),
      IpResp("nonjson", FALSE, FALSE, <<>>),
      IpResp("json", FALSE, FALSE, <<>>),
      IpResp("json", TRUE, FALSE, <<>>),
      IpResp("json", TRUE, TRUE, <<"1", "2", ".", "9", ",", "7", "7", ".", "6">>),
      IpResp("json", TRUE, TRUE, <<"0", ",", "7", "7", ".", "6">>),
      IpResp("json", TRUE, TRUE, <<"1", "2", ".", "9">>),
      IpResp("json", TRUE, TRUE, <<"a", "b", ",", "7">>) }

\* Responses of the HERE reverse-geocoding service.
\*   neterr : requests.get raises (timeout, connection);
\*   status : the HTTP status code;  body : "nonjson", "noitems" (items
\*   missing or empty), "noaddress" (items[0] has no 'address'),
\*   "nolabel" (address has no 'label'), "label" (address.label = label).
HereResp(kind, status, body, label) ==
    [kind |-> kind, status |-> status, body |-> body, label |-> label]

HereResponses ==
    { HereResp("neterr", 0, "nonjson", ""),
      HereResp("http", 403, "nonjson", ""),
      HereResp("http", 200, "nonjson", ""),
      HereResp("http", 200, "noitems", ""),
      HereResp("http", 200, "noaddress", ""),
      HereResp("http", 200, "nolabel", ""),
      HereResp("http", 200, "label", "Beach Road, Thoothukudi"),
      HereResp("http", 200, "label", "") }

\* ------------------------------------------------------ Location Resolver
\* app.py:32: the default of data.get('loc', '0,0').
DefaultLoc == <<"0", ",", "0">>

\* get_ip_location: <<latitude, longitude>>, or <<None, None>> on any
\* exception (network, JSON, AttributeError on a null loc, ValueError of
\* float(), IndexError on a loc without a comma).
get_ip_location(resp) ==
    IF resp.kind # "json" THEN <<NoneVal, NoneVal>>
    ELSE IF resp.hasLoc /\ ~resp.locIsStr THEN <<NoneVal, NoneVal>>
    ELSE LET loc == Split(IF resp.hasLoc THEN resp.loc ELSE DefaultLoc, ",")
             lat == ParseFloat(loc[1])
         IN  IF ~lat.ok \/ Len(loc) < 2 THEN <<NoneVal, NoneVal>>
             ELSE IF ~ParseFloat(loc[2]).ok THEN <<NoneVal, NoneVal>>
             ELSE <<lat.val, ParseFloat(loc[2]).val>>

\* f"Coordinates: {latitude}, {longitude}"
CoordinatesLabel(latitude, longitude) ==
    "Coordinates: " \o Str(latitude) \o ", " \o Str(longitude)

\* reverse_geocode without the 'return' of app.py:63: a response that is
\* not a 200 with items falls off the end and the label prints as "None".
reverse_geocode_no_fallback(api_key, latitude, longitude, resp) ==
    LET fallback == CoordinatesLabel(latitude, longitude) IN
    IF api_key = "" \/ ~Truthy(latitude) \/ ~Truthy(longitude)
    THEN [label |-> fallback, requested |-> FALSE]
    ELSE [requested |-> TRUE,
          label |->
            IF resp.kind = "neterr" THEN fallback
            ELSE IF resp.status # 200 THEN "None"
            ELSE IF resp.body = "label" THEN resp.label
            ELSE IF resp.body = "nolabel" THEN fallback
            ELSE IF resp.body \in {"nonjson", "noaddress"} THEN fallback
            ELSE "None"]

\* reverse_geocode: the label, and whether the HERE request was made.
reverse_geocode(api_key, latitude, longitude, resp) ==
    LET fallback == CoordinatesLabel(latitude, longitude) IN
    IF api_key = "" \/ ~Truthy(latitude) \/ ~Truthy(longitude)
    THEN [label |-> fallback, requested |-> FALSE]
    ELSE [requested |-> TRUE,
          label |->
            IF resp.kind = "neterr" THEN fallback
            ELSE IF resp.status # 200 THEN fallback
            ELSE IF resp.body = "label" THEN resp.label
            ELSE fallback]

\* ------------------------------------------------------------ Dispatcher
\* send_sms_alert: the disabled stub.
send_sms_alert(message) == TRUE

\* ------------------------------------------------------------ state
\*  env       : os.environ, a function on the names that are set
\*  clock     : the wall clock, in ticks
\*  fs        : the working directory, a function from the names of the
\*              files that exist to their content
\*  handler   : position of each POST /sos: "none" (never sent), "sent",
\*              "started" (thread started, response not yet returned),
\*              "returned"
\*  ack       : the response each POST /sos returned
\*  session   : the locals of each send_alert thread, its position pc and
\*              the status_updates list its callback appends to
\*  logins    : credentials presented to the SMTP server (server.login)
\*  delivered : messages the SMTP server accepted (server.sendmail)
\*  poll      : the last response of GET /check_status
VARIABLES env, clock, fs, handler, ack, session, logins, delivered, poll

vars == <<env, clock, fs, handler, ack, session, logins, delivered, poll>>

\* os.environ.get(name, default)
EnvGet(name, default) == IF name \in DOMAIN env THEN env[name] ELSE default

\* The defaults of app.py:166-168 (the literal secret is not repeated here).
DefaultSender == "default-sender(app.py:166)"
DefaultPassword == "default-password(app.py:167)"

\* The environments a run starts in: each of the two credentials set or not.
EnvValues == [HERE_MAPS_API_KEY |-> "here-key", EMAIL_PASSWORD |-> "app-password"]
Environments ==
    { [n \in D |-> EnvValues[n]] : D \in SUBSET {"HERE_MAPS_API_KEY", "EMAIL_PASSWORD"} }

\* datetime.now().strftime(...): the clock cut to whole seconds.
Timestamp == FormatNat(clock \div TicksPerSecond)

\* ------------------------------------------------------------ files
\* b'Placeholder audio file' and b'Placeholder video file' are 22 bytes.
PlaceholderSize == 22
\* Size of a file a device wrote data to: some positive number of bytes.
SomeBytes == 1

\* Content of a file: what wrote it, its size, the frames in it (video)
\* and the session whose data it holds.
Content(kind, size, frames, by) ==
    [kind |-> kind, size |-> size, frames |-> frames, by |-> by]

NoContent == Content("none", 0, 0, 0)

Exists(f, name) == name \in DOMAIN f

\* The file system after a file is created or truncated with content c.
Put(f, name, c) ==
    [n \in (DOMAIN f) \cup {name} |-> IF n = name THEN c ELSE f[n]]

\* with open(name, 'wb') as f: f.write(b'Placeholder ...'), with outcome
\*   "ok"           the file holds the placeholder bytes
\*   "open_failed"  open raises, the file system is untouched
\*   "write_failed" the file was created and the write or close raises:
\*                  the file is left empty
WritePlaceholder(f, name, s, outcome) ==
    CASE outcome = "ok" -> Put(f, name, Content("placeholder", PlaceholderSize, 0, s))
      [] outcome = "write_failed" -> Put(f, name, Content("placeholder", 0, 0, s))
      [] OTHER -> f

PlaceholderOutcomes == {"ok", "open_failed", "write_failed"}

\* ------------------------------------------------------------ progress
Event(message, success) == [message |-> message, success |-> success]

\* Emit with list.insert(0, ...) instead of list.append.
EmitPrepend(r, message, success) ==
    [r EXCEPT !.status_updates = <<Event(message, success)>> \o @]

\* Emit when no status_callback is installed (app.py:149): nothing is kept.
EmitDropped(r, message, success) == r

\* update_status -> sos.status_callback: append to status_updates.
Emit(r, message, success) ==
    [r EXCEPT !.status_updates = Append(@, Event(message, success))]

\* The locals of a send_alert thread before it has run.  ip_response keeps
\* the response get_ip_location received, geocode_requested whether
\* reverse_geocode made its request, frames_written the frames out.write
\* stored, cap the capture device ("none", "open", "released").
NewSession ==
    [pc |-> "NotStarted", api_key |-> "",
     ip_response |-> IpResp("none", FALSE, FALSE, <<>>),
     latitude |-> NoneVal, longitude |-> NoneVal,
     location_address |-> "", geocode_requested |-> FALSE, body |-> "",
     audio_filename |-> "", video_filename |-> "",
     audio_recorded |-> FALSE, video_recorded |-> FALSE,
     cap |-> "none", frames_written |-> 0,
     sender_password |-> "", msg |-> <<>>,
     email_success |-> FALSE, sms_success |-> FALSE,
     status_updates |-> <<>>, result |-> FALSE]

NoAck == [status |-> "", message |-> ""]
NoPoll == [status |-> "", success |-> FALSE, after_failure |-> FALSE]

\* ------------------------------------------------- Notification Composer
Part(kind, subtype, filename, text, payload) ==
    [kind |-> kind, subtype |-> subtype, filename |-> filename,
     text |-> text, payload |-> payload]

TextPart(text) == Part("text", "plain", "", text, NoContent)

AudioErrorNote == "\n\nNote: Audio recording could not be attached due to an error."
AudioMissingNote == "\n\nNote: Audio recording could not be created due to device limitations."
VideoErrorNote == "\n\nNote: Video recording could not be attached due to an error."
VideoMissingNote == "\n\nNote: Video recording could not be created due to device limitations."

\* send_email_alert, one artifact (app.py:94-109 and 112-127): attach the
\* file when it exists and is not empty; read_ok says whether open/read
\* succeeds.
AttachOrNote(f, file, subtype, read_ok, errorNote, missingNote) ==
    IF Exists(f, file) /\ f[file].size > 0
    THEN IF read_ok THEN Part("attachment", subtype, file, "", f[file])
         ELSE TextPart(errorNote)
    ELSE TextPart(missingNote)

\* ComposeParts without the 'else' branches of app.py:106 and 124: a file
\* that is missing or empty gets no note.
ComposePartsNoElse(f, body, now, audio_file, video_file, audio_read_ok, video_read_ok) ==
    SelectSeq(
        << TextPart(body \o "\n\nTime of Alert: " \o now),
           AttachOrNote(f, audio_file, "wav", audio_read_ok, AudioErrorNote, AudioMissingNote),
           AttachOrNote(f, video_file, "avi", video_read_ok, VideoErrorNote, VideoMissingNote) >>,
        LAMBDA p : p.text \notin {AudioMissingNote, VideoMissingNote})

\* send_email_alert, app.py:84-127: the MIME parts of the message.
ComposeParts(f, body, now, audio_file, video_file, audio_read_ok, video_read_ok) ==
    << TextPart(body \o "\n\nTime of Alert: " \o now),
       AttachOrNote(f, audio_file, "wav", audio_read_ok, AudioErrorNote, AudioMissingNote),
       AttachOrNote(f, video_file, "avi", video_read_ok, VideoErrorNote, VideoMissingNote) >>

\* send_email_alert, app.py:130-141.  Outcomes of the SMTP conversation:
\*   "connect_failed" SMTP() or starttls raises, before login
\*   "auth_rejected"  login raises
\*   "send_failed"    sendmail raises
\*   "quit_failed"    the message was accepted, quit raises
\*   "ok"
SmtpOutcomes == {"connect_failed", "auth_rejected", "send_failed", "quit_failed", "ok"}

SmtpLoginAttempted(o) == o # "connect_failed"
SmtpAccepted(o) == o \in {"quit_failed", "ok"}
\* The result of send_email_alert with the except branch of app.py:139-141
\* returning True.
SmtpResultAlwaysTrue(o) == TRUE
SmtpResult(o) == o = "ok"

\* --------------------------------------------------- Evidence Capturer
\* Outcomes of the audio stage: the recording and sf.write succeed, or an
\* exception is raised and the placeholder write has outcome ph.
AudioOutcomes ==
    { o \in [ok : BOOLEAN, ph : PlaceholderOutcomes] : o.ok => o.ph = "ok" }

AudioError == "Error querying device -1"

\* app.py:181-195: the audio stage on locals r of session s.
AudioStage(r, f, s, o) ==
    IF o.ok
    THEN [r |-> [Emit(r, "Audio recorded successfully", TRUE)
                   EXCEPT !.audio_recorded = TRUE],
          fs |-> Put(f, r.audio_filename, Content("wav", SomeBytes, 0, s)),
          raised |-> FALSE]
    ELSE [r |-> Emit(r, "Could not record audio: " \o AudioError
                        \o ". Sending email without audio attachment.", FALSE),
          fs |-> WritePlaceholder(f, r.audio_filename, s, o.ph),
          raised |-> o.ph # "ok"]

\* Outcomes of the video stage.
\*   open      "raises" (cv2.VideoCapture raises), "closed" (isOpened() is
\*             False), "opened"
\*   writer_ok the VideoWriter could open its file (else out.write is a no-op)
\*   reads     frames cap.read() returned before the loop ended
\*   exit      "elapsed", "read_failed" (ret False), "raised" (cap.read or
\*             out.write raises)
\*   flushed   the container holds bytes although no frame was finalised
\*   ph, ph2   outcomes of the placeholder write and of its retry
VideoOutcomes ==
    { o \in [open : {"raises", "closed", "opened"}, writer_ok : BOOLEAN,
             reads : 0..MaxFrames, exit : {"elapsed", "read_failed", "raised"},
             flushed : BOOLEAN, ph : PlaceholderOutcomes, ph2 : PlaceholderOutcomes] :
        /\ o.open # "opened" =>
              ~o.writer_ok /\ o.reads = 0 /\ o.exit = "raised" /\ ~o.flushed
        /\ o.open = "opened" =>
              /\ o.exit = "elapsed" => o.reads >= 1
              /\ (~o.writer_ok \/ (o.reads > 0 /\ o.exit # "raised")) => ~o.flushed
              /\ (o.writer_ok \/ o.exit # "raised") => o.ph = "ok"
        /\ (o.open # "closed" \/ o.ph # "open_failed") => o.ph2 = "ok" }

VideoError == "OpenCV error"

\* app.py:219-224: the except branch of the video stage.
VideoExcept(r, f, s, ph) ==
    LET r1 == Emit(r, "Error recording video: " \o VideoError
                      \o ". Sending email without video attachment.", FALSE)
    IN  IF Exists(f, r.video_filename)
        THEN [r |-> r1, fs |-> f, raised |-> FALSE]
        ELSE [r |-> r1, fs |-> WritePlaceholder(f, r.video_filename, s, ph),
              raised |-> ph # "ok"]

\* app.py:196-224: the video stage on locals r of session s.
VideoStage(r, f, s, o) ==
    CASE o.open = "raises" -> VideoExcept(r, f, s, o.ph)
      [] o.open = "closed" ->
            LET r1 == Emit(r, "Could not open video device. Sending email without video attachment.", FALSE)
                f1 == WritePlaceholder(f, r.video_filename, s, o.ph)
            IN  IF o.ph = "ok" THEN [r |-> r1, fs |-> f1, raised |-> FALSE]
                ELSE VideoExcept(r1, f1, s, o.ph2)
      [] OTHER ->
            LET written == IF o.writer_ok THEN o.reads ELSE 0
                bytes == IF o.flushed \/ (written > 0 /\ o.exit # "raised")
                         THEN SomeBytes ELSE 0
                f1 == IF o.writer_ok
                      THEN Put(f, r.video_filename, Content("avi", bytes, written, s))
                      ELSE f
                r1 == [r EXCEPT !.frames_written = written]
            IN  IF o.exit = "raised"
                THEN VideoExcept([r1 EXCEPT !.cap = "open"], f1, s, o.ph)
                ELSE [r |-> [Emit(r1, "Video recorded successfully", TRUE)
                               EXCEPT !.cap = "released", !.video_recorded = TRUE],
                      fs |-> f1, raised |-> FALSE]

\* ------------------------------------------------------------ handlers
TypeOK ==
    /\ clock \in 0..MaxClock
    /\ handler \in [Sessions -> {"none", "sent", "started", "returned"}]
    /\ DOMAIN session = Sessions
    /\ DOMAIN ack = Sessions

InitCommon ==
    /\ env \in Environments
    /\ clock = 0
    /\ fs = <<>>
    /\ ack = [s \in Sessions |-> NoAck]
    /\ session = [s \in Sessions |-> NewSession]
    /\ logins = {}
    /\ delivered = {}
    /\ poll = NoPoll

\* One POST /sos is on its way.
Init ==
    /\ InitCommon
    /\ handler = [s \in Sessions |-> IF s = 1 THEN "sent" ELSE "none"]

\* sos, app.py:262-274: read the key, make the status list, start the thread.
SosStart(s) ==
    /\ handler[s] = "sent"
    /\ handler' = [handler EXCEPT ![s] = "started"]
    /\ session' = [session EXCEPT ![s] =
                     [NewSession EXCEPT !.pc = "Idle",
                                        !.api_key = EnvGet("HERE_MAPS_API_KEY", "")]]
    /\ UNCHANGED <<env, clock, fs, ack, logins, delivered, poll>>

\* SosReturn after thread.join(): the response waits for the session.
SosReturnAfterJoin(s) ==
    /\ handler[s] = "started"
    /\ session[s].pc \in {"Completed", "Failed", "Crashed"}
    /\ handler' = [handler EXCEPT ![s] = "returned"]
    /\ ack' = [ack EXCEPT ![s] = [status |-> "Emergency alert initiated",
                                  message |-> "Help is on the way!"]]
    /\ UNCHANGED <<env, clock, fs, session, logins, delivered, poll>>

\* sos, app.py:277: return the acknowledgement.
SosReturn(s) ==
    /\ handler[s] = "started"
    /\ handler' = [handler EXCEPT ![s] = "returned"]
    /\ ack' = [ack EXCEPT ![s] = [status |-> "Emergency alert initiated",
                                  message |-> "Help is on the way!"]]
    /\ UNCHANGED <<env, clock, fs, session, logins, delivered, poll>>

\* A session whose failure the progress events or the return value show.
FailureShown(s) ==
    \/ session[s].pc = "Failed"
    \/ \E i \in 1..Len(session[s].status_updates) :
          ~session[s].status_updates[i].success

\* check_status, app.py:280-285.  after_failure records whether a session
\* had shown a failure when the poll was answered.
CheckStatus ==
    /\ poll' = [status |-> "complete", success |-> TRUE,
                after_failure |-> \E s \in Sessions : FailureShown(s)]
    /\ poll' # poll
    /\ UNCHANGED <<env, clock, fs, handler, ack, session, logins, delivered>>

\* The wall clock advances.
Tick ==
    /\ clock < MaxClock
    /\ clock' = clock + 1
    /\ UNCHANGED <<env, fs, handler, ack, session, logins, delivered, poll>>

\* ------------------------------------------------ send_alert, by stage
\* app.py:153-156: the thread starts running.
Begin(s) ==
    /\ session[s].pc = "Idle"
    /\ session' = [session EXCEPT ![s] =
          [Emit(Emit(@, "Starting emergency alert process...", TRUE),
                "Detecting location...", TRUE)
             EXCEPT !.pc = "LocatingAddress"]]
    /\ UNCHANGED <<env, clock, fs, handler, ack, logins, delivered, poll>>

\* GetIpLocation without the 'return False' of app.py:160: after "Unable to
\* fetch location." send_alert goes on to reverse_geocode.
GetIpLocationNoReturn(s, resp) ==
    /\ session[s].pc = "LocatingAddress"
    /\ LET ll == get_ip_location(resp) IN
       session' = [session EXCEPT ![s] =
          IF ll[1] = NoneVal \/ ll[2] = NoneVal
          THEN [Emit(@, "Unable to fetch location.", FALSE)
                  EXCEPT !.ip_response = resp,
                         !.latitude = ll[1], !.longitude = ll[2],
                         !.pc = "Geocoding"]
          ELSE [@ EXCEPT !.ip_response = resp,
                         !.latitude = ll[1], !.longitude = ll[2],
                         !.pc = "Geocoding"]]
    /\ UNCHANGED <<env, clock, fs, handler, ack, logins, delivered, poll>>

\* app.py:157-160: get_ip_location answers with resp.
GetIpLocation(s, resp) ==
    /\ session[s].pc = "LocatingAddress"
    /\ LET ll == get_ip_location(resp) IN
       session' = [session EXCEPT ![s] =
          IF ll[1] = NoneVal \/ ll[2] = NoneVal
          THEN [Emit(@, "Unable to fetch location.", FALSE)
                  EXCEPT !.ip_response = resp,
                         !.latitude = ll[1], !.longitude = ll[2],
                         !.pc = "Failed", !.result = FALSE]
          ELSE [@ EXCEPT !.ip_response = resp,
                         !.latitude = ll[1], !.longitude = ll[2],
                         !.pc = "Geocoding"]]
    /\ UNCHANGED <<env, clock, fs, handler, ack, logins, delivered, poll>>

\* f"Help needed! ..." of app.py:171.
Body(label, latitude, longitude) ==
    "Help needed! My current location is " \o label \o ". Latitude: "
      \o Str(latitude) \o ", Longitude: " \o Str(longitude)
      \o " and do please checkout ur email!."

\* app.py:162-181: reverse_geocode answers with resp; credentials, body and
\* the timestamped file names are set up.
ReverseGeocode(s, resp) ==
    /\ session[s].pc = "Geocoding"
    /\ LET r == session[s]
           g == reverse_geocode(r.api_key, r.latitude, r.longitude, resp)
           r1 == Emit(r, "Location detected: " \o g.label, TRUE)
           r2 == [r1 EXCEPT !.location_address = g.label,
                            !.geocode_requested = g.requested,
                            !.sender_password = EnvGet("EMAIL_PASSWORD", DefaultPassword),
                            !.body = Body(g.label, r.latitude, r.longitude),
                            !.audio_filename = "alert_audio_" \o Timestamp \o ".wav",
                            !.video_filename = "alert_video_" \o Timestamp \o ".avi",
                            !.pc = "CapturingAudio"]
       IN  session' = [session EXCEPT ![s] = Emit(r2, "Recording audio...", TRUE)]
    /\ UNCHANGED <<env, clock, fs, handler, ack, logins, delivered, poll>>

\* What a stage leaves: it went on to next, or an exception left send_alert
\* and the thread died.
AfterStage(res, message, next) ==
    IF res.raised THEN [res.r EXCEPT !.pc = "Crashed"]
    ELSE [Emit(res.r, message, TRUE) EXCEPT !.pc = next]

\* app.py:181-195: the audio stage with outcome o.
RecordAudio(s, o) ==
    /\ session[s].pc = "CapturingAudio"
    /\ LET res == AudioStage(session[s], fs, s, o) IN
       /\ fs' = res.fs
       /\ session' = [session EXCEPT ![s] =
                        AfterStage(res, "Recording video...", "CapturingVideo")]
    /\ UNCHANGED <<env, clock, handler, ack, logins, delivered, poll>>

\* app.py:196-227: the video stage with outcome o.
RecordVideo(s, o) ==
    /\ session[s].pc = "CapturingVideo"
    /\ LET res == VideoStage(session[s], fs, s, o) IN
       /\ fs' = res.fs
       /\ session' = [session EXCEPT ![s] =
                        AfterStage(res, "Sending email alert...", "Composing")]
    /\ UNCHANGED <<env, clock, handler, ack, logins, delivered, poll>>

\* send_email_alert, app.py:84-127: the message is built.
Compose(s, audio_read_ok, video_read_ok) ==
    /\ session[s].pc = "Composing"
    /\ LET r == session[s] IN
       session' = [session EXCEPT ![s] =
          [@ EXCEPT !.msg = ComposeParts(fs, r.body, Timestamp, r.audio_filename,
                                         r.video_filename, audio_read_ok, video_read_ok),
                    !.pc = "Dispatching"]]
    /\ UNCHANGED <<env, clock, fs, handler, ack, logins, delivered, poll>>

\* Finish with the verdict computed by 'and' instead of 'or'.
FinishAnd(r, email_success) ==
    LET r1 == IF email_success
              THEN Emit(r, "Email alert sent successfully", TRUE)
              ELSE Emit(r, "Failed to send email alert", FALSE)
        r2 == Emit(r1, "Sending SMS alert...", TRUE)
        sms_success == send_sms_alert(r.body)
        r3 == IF sms_success
              THEN Emit(r2, "SMS alert sent successfully", TRUE)
              ELSE Emit(r2, "Failed to send SMS alert", FALSE)
        r4 == Emit(r3, "Emergency alert process completed.", TRUE)
    IN  [r4 EXCEPT !.email_success = email_success,
                   !.sms_success = sms_success,
                   !.result = email_success /\ sms_success,
                   !.pc = "Completed"]

\* app.py:229-243: what follows the email send with result email_success.
Finish(r, email_success) ==
    LET r1 == IF email_success
              THEN Emit(r, "Email alert sent successfully", TRUE)
              ELSE Emit(r, "Failed to send email alert", FALSE)
        r2 == Emit(r1, "Sending SMS alert...", TRUE)
        sms_success == send_sms_alert(r.body)
        r3 == IF sms_success
              THEN Emit(r2, "SMS alert sent successfully", TRUE)
              ELSE Emit(r2, "Failed to send SMS alert", FALSE)
        r4 == Emit(r3, "Emergency alert process completed.", TRUE)
    IN  [r4 EXCEPT !.email_success = email_success,
                   !.sms_success = sms_success,
                   !.result = email_success \/ sms_success,
                   !.pc = "Completed"]

\* send_email_alert, app.py:130-141, then app.py:229-243: the SMTP
\* conversation has outcome o, the SMS stub runs, send_alert returns.
SendEmail(s, o) ==
    /\ session[s].pc = "Dispatching"
    /\ LET r == session[s]
           sender == EnvGet("SENDER_EMAIL", DefaultSender) IN
       /\ logins' = IF SmtpLoginAttempted(o)
                    THEN logins \cup {[user |-> sender, password |-> r.sender_password]}
                    ELSE logins
       /\ delivered' = IF SmtpAccepted(o)
                       THEN delivered \cup {[session |-> s, parts |-> r.msg]}
                       ELSE delivered
       /\ session' = [session EXCEPT ![s] = Finish(r, SmtpResult(o))]
    /\ UNCHANGED <<env, clock, fs, handler, ack, poll>>

Next ==
    \/ \E s \in Sessions : SosStart(s)
    \/ \E s \in Sessions : SosReturn(s)
    \/ CheckStatus
    \/ Tick
    \/ \E s \in Sessions : Begin(s)
    \/ \E s \in Sessions, resp \in IpResponses : GetIpLocation(s, resp)
    \/ \E s \in Sessions, resp \in HereResponses : ReverseGeocode(s, resp)
    \/ \E s \in Sessions, o \in AudioOutcomes : RecordAudio(s, o)
    \/ \E s \in Sessions, o \in VideoOutcomes : RecordVideo(s, o)
    \/ \E s \in Sessions, a \in BOOLEAN, v \in BOOLEAN : Compose(s, a, v)
    \/ \E s \in Sessions, o \in SmtpOutcomes : SendEmail(s, o)

Spec == Init /\ [][Next]_vars

\* ----------------------------------------------- further specifications
\* send_email_alert as a function of the files it finds: a session stands
\* at the call of send_email_alert and each of its two files is missing,
\* empty, a placeholder or a recording.
ArtifactStates(kind) ==
    { NoContent, Content(kind, 0, 0, 1), Content("placeholder", PlaceholderSize, 0, 1),
      Content(kind, SomeBytes, 1, 1) }

FilesOf(audio, video) ==
    LET names == (IF audio = NoContent THEN {} ELSE {"alert_audio_0.wav"})
                   \cup (IF video = NoContent THEN {} ELSE {"alert_video_0.avi"})
    IN  [n \in names |-> IF n = "alert_audio_0.wav" THEN audio ELSE video]

InitCompose ==
    /\ env \in Environments
    /\ clock = 0
    /\ \E audio \in ArtifactStates("wav"), video \in ArtifactStates("avi") :
          fs = FilesOf(audio, video)
    /\ handler = [s \in Sessions |-> IF s = 1 THEN "returned" ELSE "none"]
    /\ ack = [s \in Sessions |-> NoAck]
    /\ session = [s \in Sessions |->
          IF s = 1
          THEN [NewSession EXCEPT
                  !.pc = "Composing",
                  !.latitude = Float(129), !.longitude = Float(776),
                  !.location_address = CoordinatesLabel(Float(129), Float(776)),
                  !.body = Body(CoordinatesLabel(Float(129), Float(776)),
                                Float(129), Float(776)),
                  !.sender_password = EnvGet("EMAIL_PASSWORD", DefaultPassword),
                  !.audio_filename = "alert_audio_0.wav",
                  !.video_filename = "alert_video_0.avi"]
          ELSE NewSession]
    /\ logins = {}
    /\ delivered = {}
    /\ poll = NoPoll

NextCompose ==
    \/ Tick
    \/ \E s \in Sessions, a \in BOOLEAN, v \in BOOLEAN : Compose(s, a, v)
    \/ \E s \in Sessions, o \in SmtpOutcomes : SendEmail(s, o)

SpecCompose == InitCompose /\ [][NextCompose]_vars

\* Concurrent sessions: every POST /sos is on its way, and the lookups,
\* the devices and the mail server answer in one of a few ways.
InitConc ==
    /\ InitCommon
    /\ handler = [s \in Sessions |-> "sent"]

ConcIpResponses ==
    { IpResp("json", TRUE, TRUE, <<"1", "2", ".", "9", ",", "7", "7", ".", "6">>) }
ConcHereResponses == { HereResp("http", 200, "label", "Beach Road, Thoothukudi") }
ConcAudioOutcomes == { o \in AudioOutcomes : o.ph = "ok" }
ConcVideoOutcomes ==
    { o \in VideoOutcomes : o.open = "opened" /\ o.writer_ok /\ o.reads = 1
                              /\ o.exit = "read_failed" }

NextConc ==
    \/ \E s \in Sessions : SosStart(s)
    \/ \E s \in Sessions : SosReturn(s)
    \/ Tick
    \/ \E s \in Sessions : Begin(s)
    \/ \E s \in Sessions, resp \in ConcIpResponses : GetIpLocation(s, resp)
    \/ \E s \in Sessions, resp \in ConcHereResponses : ReverseGeocode(s, resp)
    \/ \E s \in Sessions, o \in ConcAudioOutcomes : RecordAudio(s, o)
    \/ \E s \in Sessions, o \in ConcVideoOutcomes : RecordVideo(s, o)
    \/ \E s \in Sessions : Compose(s, TRUE, TRUE)
    \/ \E s \in Sessions : SendEmail(s, "ok")

SpecConc == InitConc /\ [][NextConc]_vars

\* ------------------------------------------------------------ claims
\* Positions of send_alert after the location step, after the audio stage,
\* after the video stage, and after the message was composed.
AfterLocation == {"CapturingAudio", "CapturingVideo", "Composing", "Dispatching", "Completed"}
AfterAudio == {"CapturingVideo", "Composing", "Dispatching", "Completed"}
AfterVideo == {"Composing", "Dispatching", "Completed"}
Composed == {"Dispatching", "Completed"}

IsAttachment(p, subtype) == p.kind = "attachment" /\ p.subtype = subtype
IsAudioNote(p) == p.kind = "text" /\ p.text \in {AudioErrorNote, AudioMissingNote}
IsVideoNote(p) == p.kind = "text" /\ p.text \in {VideoErrorNote, VideoMissingNote}

HasPart(m, P(_)) == \E i \in 1..Len(m) : P(m[i])
IsAudioAttachment(p) == IsAttachment(p, "wav")
IsVideoAttachment(p) == IsAttachment(p, "avi")

\* The file a session's name points to holds a placeholder.
IsPlaceholderFile(name) == Exists(fs, name) /\ fs[name].kind = "placeholder"

\* C1: in every session whose audio (video) capture failed and left a
\* placeholder file, the composed message has the degradation note of that
\* kind and no attachment of that kind; with audio failed and video
\* recorded, the message has an audio note and a video attachment.
C1_PlaceholderNeverAttached ==
    \A s \in Sessions :
        LET r == session[s] IN
        r.pc \in Composed =>
            /\ (~r.audio_recorded /\ IsPlaceholderFile(r.audio_filename)) =>
                  HasPart(r.msg, IsAudioNote) /\ ~HasPart(r.msg, IsAudioAttachment)
            /\ (~r.video_recorded /\ IsPlaceholderFile(r.video_filename)) =>
                  HasPart(r.msg, IsVideoNote) /\ ~HasPart(r.msg, IsVideoAttachment)

\* C2: a Completed session's verdict is the OR of the email and SMS
\* results, a Failed session's verdict is false, and a Completed session
\* whose email failed while the stub succeeded has verdict true.
C2_VerdictIsOr ==
    \A s \in Sessions :
        LET r == session[s] IN
        /\ r.pc = "Completed" => (r.result <=> (r.email_success \/ r.sms_success))
        /\ r.pc = "Completed" => r.sms_success
        /\ (r.pc = "Completed" /\ ~r.email_success) => r.result
        /\ r.pc = "Failed" => ~r.result

C2_Witness ==
    \E s \in Sessions :
        /\ session[s].pc = "Completed"
        /\ ~session[s].email_success
        /\ session[s].sms_success
        /\ session[s].result

\* The address labels the reverse-geocoding service returns.
HereLabels ==
    { resp.label : resp \in { x \in HereResponses :
                                x.kind = "http" /\ x.status = 200 /\ x.body = "label" } }

C4_ArtifactsNonEmpty ==
    \A s \in Sessions :
        LET r == session[s] IN
        /\ r.pc \in AfterAudio =>
              Exists(fs, r.audio_filename) /\ fs[r.audio_filename].size > 0
        /\ r.pc \in AfterVideo =>
              /\ Exists(fs, r.video_filename) /\ fs[r.video_filename].size > 0
              /\ (r.cap # "none" /\ r.frames_written = 0) =>
                    IsPlaceholderFile(r.video_filename) /\ ~r.video_recorded

\* An IP-geolocation response that is malformed or has no usable 'loc'.
LacksLocation(resp) == resp.kind # "json" \/ ~resp.hasLoc \/ ~resp.locIsStr

\* C5: a response that is malformed or lacks 'loc' gives absent
\* coordinates; no (0, 0) pair stands in for it in the label or the body.
C5_NoSentinelZero ==
    \A s \in Sessions :
        LET r == session[s] IN
        (r.pc \notin {"NotStarted", "Idle", "LocatingAddress"}
           /\ LacksLocation(r.ip_response)) =>
            /\ r.latitude = NoneVal /\ r.longitude = NoneVal
            /\ r.location_address # CoordinatesLabel(Float(0), Float(0))

\* The representations of the audio file and of the video file in a message.
AudioRepresentations(m) ==
    { i \in 1..Len(m) : IsAudioAttachment(m[i]) \/ IsAudioNote(m[i]) }
VideoRepresentations(m) ==
    { i \in 1..Len(m) : IsVideoAttachment(m[i]) \/ IsVideoNote(m[i]) }

NonEmptyFile(name) == Exists(fs, name) /\ fs[name].size > 0

\* C6: whatever the state of the audio and video files (missing, empty,
\* non-empty and readable or not), the composed message holds exactly one
\* representation of the audio and exactly one of the video, an attachment
\* or a note: an attachment only of a file that exists and is not empty,
\* the "could not be created" note exactly when the file is missing or
\* empty; composition does not end the session.
C6_ExactlyOnePerKind ==
    \A s \in Sessions :
        LET r == session[s] IN
        /\ r.pc # "Crashed"
        /\ r.pc \in Composed =>
              /\ Cardinality(AudioRepresentations(r.msg)) = 1
              /\ Cardinality(VideoRepresentations(r.msg)) = 1
              /\ HasPart(r.msg, IsAudioAttachment) => NonEmptyFile(r.audio_filename)
              /\ HasPart(r.msg, IsVideoAttachment) => NonEmptyFile(r.video_filename)
              /\ HasPart(r.msg, LAMBDA p : p.text = AudioMissingNote)
                    <=> ~NonEmptyFile(r.audio_filename)
              /\ HasPart(r.msg, LAMBDA p : p.text = VideoMissingNote)
                    <=> ~NonEmptyFile(r.video_filename)

\* An empty audio file and an unreadable video file: two notes.
C6_Witness ==
    \E s \in Sessions :
        /\ session[s].pc \in Composed
        /\ Exists(fs, session[s].audio_filename)
        /\ fs[session[s].audio_filename].size = 0
        /\ NonEmptyFile(session[s].video_filename)
        /\ HasPart(session[s].msg, LAMBDA p : p.text = AudioMissingNote)
        /\ HasPart(session[s].msg, LAMBDA p : p.text = VideoErrorNote)

InitiatedAck == [status |-> "Emergency alert initiated", message |-> "Help is on the way!"]

\* C7: once sos has started the thread, its return is enabled whatever the
\* session does or has done, and the acknowledgement it returns is the
\* same whatever the session's state.
C7_TriggerNonBlocking ==
    \A s \in Sessions :
        /\ handler[s] = "started" => ENABLED SosReturn(s)
        /\ handler[s] = "returned" => ack[s] = InitiatedAck

\* The acknowledgement was returned before the session took a step.
C7_Witness ==
    \E s \in Sessions :
        handler[s] = "returned" /\ ack[s] = InitiatedAck /\ session[s].pc = "Idle"

\* C8: a poll answered after a session has shown a failure does not report
\* success.
C8_FailureVisible ==
    (poll.status # "" /\ poll.after_failure) => ~poll.success

\* C9: with EMAIL_PASSWORD not set, no credential is presented to the mail
\* server and the email result of a Completed session is false.
C9_FailsClosed ==
    "EMAIL_PASSWORD" \notin DOMAIN env =>
        /\ logins = {}
        /\ \A s \in Sessions :
              session[s].pc = "Completed" => ~session[s].email_success

\* C10: two sessions never use the same artifact file: their audio file
\* names differ, their video file names differ, and what a session
\* attaches is data that session wrote.
C10_SessionsIndependent ==
    \A s1 \in Sessions, s2 \in Sessions :
        LET r1 == session[s1]
            r2 == session[s2] IN
        /\ (s1 # s2 /\ r1.audio_filename # "" /\ r2.audio_filename # "") =>
              /\ r1.audio_filename # r2.audio_filename
              /\ r1.video_filename # r2.video_filename
        /\ \A i \in 1..Len(r1.msg) :
              r1.msg[i].kind = "attachment" => r1.msg[i].payload.by = s1

IsPrefix(a, b) == Len(a) <= Len(b) /\ SubSeq(b, 1, Len(a)) = a

\* C11: the progress events of a session are an append-only sequence: every
\* step leaves the events already in the list in place, unchanged and at
\* the same positions 1, 2, ... without gaps, and adds new events only
\* after them, so the list is in emission order from the first event to
\* the event of the terminal state.
C11_AppendOnly ==
    [][\A s \in Sessions :
          IsPrefix(session[s].status_updates, session'[s].status_updates)]_vars

\* A session that ran to Completed: its first event is the start event and
\* its last the completion event.
C11_Witness ==
    \E s \in Sessions :
        LET u == session[s].status_updates IN
        /\ session[s].pc = "Completed"
        /\ Len(u) >= 12
        /\ u[1].message = "Starting emergency alert process..."
        /\ u[Len(u)].message = "Emergency alert process completed."

\* The state of the session state machine a position of send_alert is in:
\* both lookups are part of LocatingAddress.
State(pc) == IF pc = "Geocoding" THEN "LocatingAddress" ELSE pc

\* The events a step of session s adds.
Emitted(s) == Len(session'[s].status_updates) - Len(session[s].status_updates)

\* A step of session s that changes the state of a running state machine.
Transition(s) ==
    /\ session[s].pc # "NotStarted"
    /\ State(session'[s].pc) # State(session[s].pc)

\* C12 as stated: every state transition emits exactly one progress event.
C12_OneEventPerTransition ==
    [][\A s \in Sessions : Transition(s) => Emitted(s) = 1]_vars

\* C12 amended: every state transition except Composing -> Dispatching
\* emits at least one progress event, and at most four, before the session
\* advances; Composing -> Dispatching emits none; the transition to Failed
\* emits exactly one; a step that changes no state emits nothing.
C12_EventsPerTransition ==
    [][\A s \in Sessions :
          /\ Transition(s) =>
                IF session[s].pc = "Composing" THEN Emitted(s) = 0
                ELSE IF session'[s].pc = "Failed" THEN Emitted(s) = 1
                ELSE Emitted(s) >= 1 /\ Emitted(s) <= 4
          /\ ~Transition(s) => Emitted(s) = 0]_vars

\* A Completed session: five transitions with events and one without.
C12_Witness ==
    \E s \in Sessions :
        session[s].pc = "Completed" /\ Len(session[s].status_updates) = 12

\* The steps of a session in their order, and the two terminal states.
StepOrder ==
    <<"Idle", "LocatingAddress", "CapturingAudio", "CapturingVideo",
      "Composing", "Dispatching">>

Steps == {StepOrder[i] : i \in 1..Len(StepOrder)}

Terminal == {"Completed", "Failed"}

StepIndex(st) == CHOOSE i \in 1..Len(StepOrder) : StepOrder[i] = st

\* A step of the session from state a to state b that the order allows: stay,
\* advance to the immediately following step, fail out of location
\* resolution, or complete out of dispatch.
InOrder(a, b) ==
    \/ a = b
    \/ a = "NotStarted" /\ b = "Idle"
    \/ /\ a \in Steps /\ b \in Steps
       /\ StepIndex(b) = StepIndex(a) + 1
    \/ a = "LocatingAddress" /\ b = "Failed"
    \/ a = "Dispatching" /\ b = "Completed"

\* C13: within one session the steps occur strictly in the order location
\* resolution, audio capture, video capture, composition, dispatch, terminal
\* state: every change of state goes to the next step of the order, so no
\* step is skipped, repeated or revisited, a failed audio capture is still
\* followed by video capture, and nothing changes once a terminal state is
\* reached.
C13_StrictOrder ==
    [][\A s \in Sessions :
          /\ InOrder(State(session[s].pc), State(session'[s].pc))
          /\ session[s].pc \in Terminal => session'[s] = session[s]]_vars

\* C14: the video capture device is released on every exit path of the
\* video capture step: once the step has ended (the session is composing,
\* dispatching or completed) the device is never still held open.
C14_DeviceReleased ==
    \A s \in Sessions :
        session[s].pc \in AfterVideo => session[s].cap # "open"

HasEvent(s, message, success) ==
    \E i \in 1..Len(session[s].status_updates) :
        session[s].status_updates[i] = Event(message, success)

HasMessage(s, message) ==
    \E i \in 1..Len(session[s].status_updates) :
        session[s].status_updates[i].message = message

EmailDelivered(s) == \E d \in delivered : d.session = s

\* A step of session s out of Dispatching: the SMTP conversation is over.
DispatchStep(s) ==
    session[s].pc = "Dispatching" /\ session'[s] # session[s]

\* C15: a failure of the email channel never aborts the session: whatever
\* the outcome of the SMTP conversation, the step out of Dispatching ends in
\* Completed; if the transport did not accept the message the email result
\* is false; and whenever the email result is false the events include
\* "Failed to send email alert" with success false and no "Email alert sent
\* successfully", the SMS step has run with result true, and the final
\* verdict is true.
C15_EmailFailureContained ==
    [][\A s \in Sessions :
          DispatchStep(s) =>
             /\ session'[s].pc = "Completed"
             /\ ~EmailDelivered(s)' => ~session'[s].email_success
             /\ ~session'[s].email_success =>
                   /\ HasEvent(s, "Failed to send email alert", FALSE)'
                   /\ ~HasMessage(s, "Email alert sent successfully")'
                   /\ HasEvent(s, "Sending SMS alert...", TRUE)'
                   /\ HasEvent(s, "SMS alert sent successfully", TRUE)'
                   /\ session'[s].sms_success
                   /\ session'[s].result]_vars

\* A session whose SMTP login was attempted and whose email failed, Completed.
C15_Witness ==
    \E s \in Sessions :
        /\ session[s].pc = "Completed"
        /\ ~session[s].email_success
        /\ ~EmailDelivered(s)
        /\ logins # {}
        /\ session[s].result

\* The steps the background task of session s can take.
Run(s) ==
    \/ Begin(s)
    \/ \E resp \in IpResponses : GetIpLocation(s, resp)
    \/ \E resp \in HereResponses : ReverseGeocode(s, resp)
    \/ \E o \in AudioOutcomes : RecordAudio(s, o)
    \/ \E o \in VideoOutcomes : RecordVideo(s, o)
    \/ \E a \in BOOLEAN, v \in BOOLEAN : Compose(s, a, v)
    \/ \E o \in SmtpOutcomes : SendEmail(s, o)

LastMessage(s) ==
    session[s].status_updates[Len(session[s].status_updates)].message

\* C16: once triggered, a session runs to completion: a started session
\* that is not Completed or Failed can always take its next step, whatever
\* failed before, and a session that is Completed or Failed has emitted its
\* terminal progress event last.
C16_RunsToCompletion ==
    \A s \in Sessions :
        /\ session[s].pc \notin {"NotStarted"} \cup Terminal => ENABLED Run(s)
        /\ session[s].pc = "Completed" =>
              LastMessage(s) = "Emergency alert process completed."
        /\ session[s].pc = "Failed" =>
              LastMessage(s) = "Unable to fetch location."

\* C17: when the geocoding key is absent and the IP lookup returned
\* coordinates (lat, lon), no reverse-geocoding request is made, the label is
\* exactly "Coordinates: lat, lon" ("Coordinates: 12.9, 77.6" for
\* (12.9, 77.6)), and the session reaches Completed: it is never left
\* short of Completed without a next step.
C17_KeyAbsent ==
    \A s \in Sessions :
        LET r == session[s] IN
        (r.api_key = "" /\ r.pc \in {"Crashed"} \cup AfterLocation) =>
            /\ ~r.geocode_requested
            /\ r.location_address = CoordinatesLabel(r.latitude, r.longitude)
            /\ (r.latitude = Float(129) /\ r.longitude = Float(776)) =>
                  r.location_address = "Coordinates: 12.9, 77.6"
            /\ r.pc # "Completed" => ENABLED Run(s)

\* C18: whenever both coordinates are present, a latitude or longitude of 0
\* included, and a geocoding credential is configured, the reverse-geocoding
\* lookup is queried, and on a 200 response with a non-empty result list the
\* label is the returned address label.
C18_GeocodeQueried ==
    [][\A s \in Sessions, resp \in HereResponses :
          (ReverseGeocode(s, resp) /\ session[s].api_key # "") =>
             /\ session'[s].geocode_requested
             /\ (resp.kind = "http" /\ resp.status = 200 /\ resp.body = "label") =>
                   session'[s].location_address = resp.label]_vars

\* C19: send_alert returns False if and only if the IP-geolocation lookup
\* returned absent coordinates: a session that returned at Failed has no
\* coordinates and the verdict False, a session without coordinates returns
\* at Failed, and every session that got past the location step returns
\* True, whatever the outcomes of the captures and of the email: it has
\* returned True at Completed or still has a next step towards it.
C19_FalseIffNoCoordinates ==
    \A s \in Sessions :
        LET r == session[s] IN
        /\ r.pc = "Failed" =>
              r.latitude = NoneVal /\ r.longitude = NoneVal /\ ~r.result
        /\ r.pc \in {"Geocoding", "Crashed"} \cup AfterLocation =>
              /\ r.latitude # NoneVal /\ r.longitude # NoneVal
              /\ r.pc = "Completed" => r.result /\ r.sms_success
              /\ r.pc # "Completed" => ENABLED Run(s)

\* The session has the answer of the IP-geolocation lookup.
LookedUp(s) == session[s].pc \notin {"NotStarted", "Idle", "LocatingAddress"}

\* C20: when the IP-geolocation lookup returns absent coordinates the
\* session ends at once in Failed with the verdict False, and nothing else
\* has happened: no reverse-geocoding request, no device opened, no file
\* names chosen and no file created, no message composed, no SMTP login, no
\* delivery, no SMS result, and the progress log is exactly the three events
\* "Starting emergency alert process...", "Detecting location...", "Unable to
\* fetch location." (the last with success false).
C20_AbsentCoordinatesEndSession ==
    \A s \in Sessions :
        LET r == session[s] IN
        (LookedUp(s) /\ (r.latitude = NoneVal \/ r.longitude = NoneVal)) =>
            /\ r.pc = "Failed"
            /\ ~r.result
            /\ ~r.geocode_requested /\ r.location_address = ""
            /\ r.cap = "none" /\ r.frames_written = 0
            /\ ~r.audio_recorded /\ ~r.video_recorded
            /\ r.audio_filename = "" /\ r.video_filename = ""
            /\ DOMAIN fs = {}
            /\ r.msg = <<>> /\ r.body = ""
            /\ logins = {} /\ delivered = {}
            /\ ~r.email_success /\ ~r.sms_success
            /\ r.status_updates =
                  << Event("Starting emergency alert process...", TRUE),
                     Event("Detecting location...", TRUE),
                     Event("Unable to fetch location.", FALSE) >>
            /\ ~ENABLED Run(s)

\* The lookup failed on the network and the session is Failed.
C20_Witness ==
    \E s \in Sessions :
        /\ session[s].pc = "Failed"
        /\ session[s].ip_response.kind = "neterr"
        /\ session[s].latitude = NoneVal
        /\ Len(session[s].status_updates) = 3

====
